---- MODULE Spec2Model ----
(***************************************************************************)
(* goeval: the scope chain (Scope.Get / Set / NewChild) and the tree-      *)
(* walking evaluator (Scope.Eval / Scope.interpret) of eval.go, with the   *)
(* builtin tables of biultins.go.                                          *)
(*                                                                         *)
(* Scopes live in an arena 1..MaxScopes; Parent[s] = NoScope is the nil    *)
(* parent pointer.  A Go interface{} value is a record tagged by its       *)
(* dynamic kind; Unbound marks a key that is absent from a Vars map (it is *)
(* not a Go value, a key bound to nil is NilV).                            *)
(*                                                                         *)
(* A slice value is its header together with the contents of its backing   *)
(* array: arr is the identity of the array, off the position of the first  *)
(* element of the slice in it, xs the elements of the slice (len(xs) is    *)
(* its length) and spare the elements of the array between the length and  *)
(* the capacity.  Two headers with the same arr share storage: a store     *)
(* into an array is applied to every header of that array that a scope     *)
(* binds.  A map value carries the identity of its table in the same way.  *)
(*                                                                         *)
(* The syntax trees given to interpret are the trees go/parser builds for  *)
(* the source text; every identifier carries the Obj the parser attached   *)
(* to it: "Var" for a name declared earlier in the same source, "Bad" for  *)
(* a name the parser could not resolve, "none" for Obj == nil.             *)
(***************************************************************************)
EXTENDS Integers, Sequences, FiniteSets, TLC

MaxScopes == 3
MaxSteps == 3
MaxSetup == 1
MaxEvals == 3
MaxN == 2
MaxIter == 5
MaxProcs == 2

NoScope == 0
NoErr == "nil"

Names == {"x", "age", "a", "b", "c", "i", "k", "u", "mn", "ef", "print"}

----------------------------------------------------------------------------
(* Runtime values                                                          *)

NilV == [k |-> "nil"]
Unbound == [k |-> "unbound"]
IntV(n) == [k |-> "int", i |-> n]
StrV(str) == [k |-> "string", s |-> str]
BoolV(b) == [k |-> "bool", b |-> b]
ByteOf(str, n) == [k |-> "uint8", of |-> str, at |-> n]
Slice(arr, off, elt, xs, spare) ==
    [k |-> "slice", elt |-> elt, xs |-> xs, arr |-> arr, off |-> off, spare |-> spare]
\* a slice whose capacity is its length
SliceV(arr, elt, xs) == Slice(arr, 0, elt, xs, <<>>)
MapV(arr, key, elt, m) == [k |-> "map", key |-> key, elt |-> elt, m |-> m, arr |-> arr]
FuncV(f) == [k |-> "func", f |-> f]
TypeV(ty) == [k |-> "type", ty |-> ty]
SliceOf(ty) == [k |-> "type", ty |-> "slice", elt |-> ty]
MapOf(key, ty) == [k |-> "type", ty |-> "map", key |-> key, elt |-> ty]

\* reflect.Zero(t).Interface()
Zero(ty) ==
    CASE ty = "int" -> IntV(0)
      [] ty = "string" -> StrV("")
      [] ty = "bool" -> BoolV(FALSE)
      [] OTHER -> NilV

builtins ==
    [nil |-> NilV, true |-> BoolV(TRUE), false |-> BoolV(FALSE),
     append |-> FuncV("append"), make |-> FuncV("make"), len |-> FuncV("len")]

builtinTypes ==
    [bool |-> TypeV("bool"), string |-> TypeV("string"), int |-> TypeV("int")]

----------------------------------------------------------------------------
(* The scope chain                                                         *)

VARIABLES Vars, Parent, nscopes, lastOp, steps, evals, run, procs

vars == <<Vars, Parent, nscopes, lastOp, steps, evals, run, procs>>

Scopes == 1..MaxScopes

EmptyVars == [n \in Names |-> Unbound]

\* _, exists = currentScope.Vars[name]
Exists(vs, s, name) == vs[s][name] # Unbound

RECURSIVE GetWalk(_, _, _)
GetWalk(vs, cur, name) ==
    IF cur = NoScope THEN NilV
    ELSE IF Exists(vs, cur, name) THEN vs[cur][name]
    ELSE GetWalk(vs, Parent[cur], name)

\* a Get that looks at its own mapping only
GetLocal(vs, s, name) == IF Exists(vs, s, name) THEN vs[s][name] ELSE NilV

\* func (s *Scope) Get(name string) (val interface{})
Get(vs, s, name) == GetWalk(vs, s, name)

RECURSIVE SetWalk(_, _, _, _)
SetWalk(vs, cur, name, val) ==
    IF cur = NoScope THEN [exists |-> FALSE, vs |-> vs]
    ELSE IF Exists(vs, cur, name)
         THEN [exists |-> TRUE, vs |-> [vs EXCEPT ![cur][name] = val]]
    ELSE SetWalk(vs, Parent[cur], name, val)

\* a Set that always binds in the scope it is called on
SetShadow(vs, s, name, val) == [vs EXCEPT ![s][name] = val]

\* func (s *Scope) Set(name string, val interface{})
Set(vs, s, name, val) ==
    LET w == SetWalk(vs, s, name, val)
    IN IF w.exists THEN w.vs ELSE [vs EXCEPT ![s][name] = val]

\* for k := range currentScope.Vars
KeysIn(vs, cur) == {n \in Names : Exists(vs, cur, n)}

\* the loop of Keys with currentScope = cur; seen are the values currentScope
\* has had.  The loop's next currentScope is s.Parent whatever cur is, so a
\* currentScope that comes back never becomes nil: the loop does not end.
\* Go ranges over a map in no fixed order, so the keys are kept as a set.
RECURSIVE KeysLoop(_, _, _, _, _, _)
KeysLoop(vs, s, cur, seen, visited, keys) ==
    IF cur = NoScope THEN [st |-> "ok", keys |-> keys, visited |-> visited]
    ELSE IF cur \in seen THEN [st |-> "hang", keys |-> keys, visited |-> visited]
    ELSE KeysLoop(vs, s, Parent[s], seen \cup {cur}, Append(visited, cur),
                  keys \cup KeysIn(vs, cur))

\* func (s *Scope) Keys() (keys []string)
Keys(vs, s) == KeysLoop(vs, s, s, {}, <<>>, {})

----------------------------------------------------------------------------
(* Backing arrays                                                          *)

Max(S) == CHOOSE m \in S : \A q \in S : q <= m

\* the identities of the arrays and tables of the values that vs binds
ArrsOf(vs) ==
    {vs[q[1]][q[2]].arr : q \in {b \in Scopes \X Names : vs[b[1]][b[2]].k \in {"slice", "map"}}}

\* reflect.MakeSlice, reflect.MakeMap: a new array takes an identity that no
\* bound value carries (the sources of the model bind a new slice before
\* they make the next one)
NewArr(vs) == Max(ArrsOf(vs) \cup {0}) + 1

\* header h after position p of array arr has become val
StoreIn(h, arr, p, val) ==
    IF h.k # "slice" THEN h
    ELSE IF h.arr # arr THEN h
    ELSE IF p >= h.off /\ p < h.off + Len(h.xs)
         THEN [h EXCEPT !.xs[p - h.off + 1] = val]
    ELSE IF p >= h.off + Len(h.xs) /\ p < h.off + Len(h.xs) + Len(h.spare)
         THEN [h EXCEPT !.spare[p - h.off - Len(h.xs) + 1] = val]
    ELSE h

\* reflect.Value.Set on element p of array arr
StoreElem(vs, arr, p, val) ==
    [s \in Scopes |-> [n \in Names |-> StoreIn(vs[s][n], arr, p, val)]]

\* map value h after reflect.Value.SetMapIndex(key, val) on table arr; a nil
\* val deletes the key
PutIn(h, arr, key, val) ==
    IF h.k # "map" THEN h
    ELSE IF h.arr # arr THEN h
    ELSE IF val.k = "nil"
         THEN [h EXCEPT !.m = [q \in (DOMAIN h.m) \ {key} |-> h.m[q]]]
    ELSE [h EXCEPT !.m = [q \in (DOMAIN h.m) \cup {key} |-> IF q = key THEN val ELSE h.m[q]]]

PutElem(vs, arr, key, val) ==
    [s \in Scopes |-> [n \in Names |-> PutIn(vs[s][n], arr, key, val)]]

----------------------------------------------------------------------------
(* Syntax trees (go/ast nodes)                                             *)

NilNode == [t |-> "nil"]
Lit(v) == [t |-> "BasicLit", v |-> v]
Id(n, o) == [t |-> "Ident", name |-> n, obj |-> o]
Bin(op, x, y) == [t |-> "BinaryExpr", op |-> op, x |-> x, y |-> y]
Idx(x, i) == [t |-> "IndexExpr", x |-> x, index |-> i]
\* ellipsis is TRUE for f(xs...), expr.Ellipsis != token.NoPos
CallExpr(fun, args, ellipsis) == [t |-> "CallExpr", fun |-> fun, args |-> args, ellipsis |-> ellipsis]
MapType(key, value) == [t |-> "MapType", key |-> key, value |-> value]
SliceExpr(x, low, high) == [t |-> "SliceExpr", x |-> x, low |-> low, high |-> high]
ArrayType(elt) == [t |-> "ArrayType", elt |-> elt]
CompositeLit(typ, elts) == [t |-> "CompositeLit", type |-> typ, elts |-> elts]
Assign(tok, lhs, rhs) == [t |-> "AssignStmt", tok |-> tok, lhs |-> lhs, rhs |-> rhs]
Block(list) == [t |-> "BlockStmt", list |-> list]
ExprStmt(x) == [t |-> "ExprStmt", x |-> x]
ForStmt(init, cond, post, body) ==
    [t |-> "ForStmt", init |-> init, cond |-> cond, post |-> post, body |-> body]
IfStmt(init, cond, body, els) ==
    [t |-> "IfStmt", init |-> init, cond |-> cond, body |-> body, els |-> els]
RangeStmt(key, value, x, body) ==
    [t |-> "RangeStmt", key |-> key, value |-> value, x |-> x, body |-> body]
ReturnStmt(results) == [t |-> "ReturnStmt", results |-> results]

----------------------------------------------------------------------------
(* Results of interpret: st = "ok" is a normal return of (val, err);       *)
(* "panic" is a Go run-time panic unwinding out of Eval (nothing in the    *)
(* package recovers); "hang" is a loop that never ends.                    *)

Ok(v, vs) == [st |-> "ok", val |-> v, err |-> NoErr, vs |-> vs]
Fail(e, vs) == [st |-> "ok", val |-> NilV, err |-> e, vs |-> vs]
Panic(vs) == [st |-> "panic", val |-> NilV, err |-> NoErr, vs |-> vs]
Hang(vs) == [st |-> "hang", val |-> NilV, err |-> NoErr, vs |-> vs]

\* if err != nil { return nil, err }
Abort(r) == r.st # "ok" \/ r.err # NoErr
Prop(r) == IF r.st # "ok" THEN r ELSE Fail(r.err, r.vs)

\* binaryOp(x, y, op): both operands of the same kind, no widening
binaryOp(x, y, op, vs) ==
    IF x.k = "int" /\ y.k = "int" THEN
        CASE op = "+" -> Ok(IntV(x.i + y.i), vs)
          [] op = "-" -> Ok(IntV(x.i - y.i), vs)
          [] op = "<" -> Ok(BoolV(x.i < y.i), vs)
          [] op = ">" -> Ok(BoolV(x.i > y.i), vs)
          [] OTHER -> Fail("operator type error", vs)
    ELSE IF x.k = "string" /\ y.k = "string" /\ op = "+"
         THEN Ok(StrV(x.s \o y.s), vs)
    ELSE Fail("operator type error", vs)

\* case *ast.Ident
Ident(expr, s, vs) ==
    IF expr.obj = "none" THEN Ok(StrV(expr.name), vs)
    ELSE CASE expr.obj = "Bad" ->
                IF expr.name \in DOMAIN builtinTypes THEN Ok(builtinTypes[expr.name], vs)
                ELSE IF expr.name \in DOMAIN builtins THEN Ok(builtins[expr.name], vs)
                ELSE IF Get(vs, s, expr.name) # NilV THEN Ok(Get(vs, s, expr.name), vs)
                ELSE Ok(StrV(expr.name), vs)
           [] expr.obj = "Typ" ->
                IF Exists(vs, s, expr.name) THEN Ok(vs[s][expr.name], vs)
                ELSE Fail("type not found", vs)
           [] expr.obj = "Var" ->
                IF Get(vs, s, expr.name) # NilV THEN Ok(Get(vs, s, expr.name), vs)
                ELSE Ok(NilV, vs)
           [] OTHER -> Ok(NilV, vs)

\* xVal.Len() is defined for these kinds, it panics for every other
HasLen(v) == v.k \in {"slice", "map", "string"}
LenOf(v) ==
    CASE v.k = "slice" -> Len(v.xs)
      [] v.k = "map" -> Cardinality(DOMAIN v.m)
      [] v.k = "string" -> Len(v.s)

\* case *ast.IndexExpr, after X and Index are evaluated
IndexValue(X, i, vs) ==
    IF X.k = "nil" THEN Panic(vs)
    ELSE IF X.k = "map" THEN
        IF i.k # X.key THEN Panic(vs)
        ELSE IF i.s \notin DOMAIN X.m THEN Ok(Zero(X.elt), vs)
        ELSE Ok(X.m[i.s], vs)
    ELSE IF i.k # "int" THEN Fail("index must be an int", vs)
    ELSE IF ~HasLen(X) THEN Panic(vs)
    ELSE IF i.i >= LenOf(X) \/ i.i < 0 THEN Fail("slice index result of range", vs)
    ELSE IF X.k = "slice" THEN Ok(X.xs[i.i + 1], vs)
    ELSE Ok(ByteOf(X.s, i.i), vs)

----------------------------------------------------------------------------
(* biultins.go, and the function the tests preset                          *)

\* reflect.TypeOf(v), as the name of the type
TypeName(v) ==
    CASE v.k = "slice" -> "[]" \o v.elt
      [] v.k = "map" -> "map[" \o v.key \o "]" \o v.elt
      [] OTHER -> v.k

Zeros(ty, n) == [j \in 1..n |-> Zero(ty)]

RECURSIVE StoreAll(_, _, _, _, _)
StoreAll(vs, arr, p, elems, j) ==
    IF j > Len(elems) THEN vs
    ELSE StoreAll(StoreElem(vs, arr, p + j - 1, elems[j]), arr, p, elems, j + 1)

\* the capacity reflect.Append gives the array it allocates when cap < need
RECURSIVE Grow(_, _)
Grow(cap, need) == IF cap >= need THEN cap ELSE Grow(cap + cap, need)

\* reflect.Append(arrVal, valArr...): within the capacity the elements go
\* into the array of arr, beyond it into a new array
ReflectAppend(arr, elems, vs) ==
    LET n == Len(arr.xs)
        cap == n + Len(arr.spare)
        need == n + Len(elems)
    IN IF need <= cap
       THEN Ok(Slice(arr.arr, arr.off, arr.elt, arr.xs \o elems,
                     SubSeq(arr.spare, Len(elems) + 1, Len(arr.spare))),
               StoreAll(vs, arr.arr, arr.off + n, elems, 1))
       ELSE Ok(Slice(NewArr(vs), 0, arr.elt, arr.xs \o elems,
                     Zeros(arr.elt, (IF cap = 0 THEN need ELSE Grow(cap, need)) - need)),
               vs)

\* func Append(arr interface{}, elements ...interface{}) (interface{}, error)
AppendFn(arr, elements, vs) ==
    IF \E j \in 1..Len(elements) : TypeName(arr) # "[]" \o TypeName(elements[j])
    THEN Fail("cannot append", vs)
    ELSE IF arr.k # "slice" THEN Panic(vs)
    ELSE ReflectAppend(arr, elements, vs)

\* func Make(t interface{}, args ...interface{}) (v interface{}, err error)
Make(t, args, vs) ==
    IF t.k # "type" THEN Fail("invalid type", vs)
    ELSE CASE t.ty = "slice" ->
                IF Len(args) < 1 \/ Len(args) > 2
                THEN Fail("invalid number of arguments for make slice, 1 or 2 needed", vs)
                ELSE IF \E j \in 1..Len(args) : args[j].k # "int" THEN Fail("error not int", vs)
                ELSE LET length == args[1].i
                         capacity == IF Len(args) = 2 THEN args[2].i ELSE length
                     IN IF length < 0 \/ capacity < length THEN Panic(vs)
                        ELSE Ok(Slice(NewArr(vs), 0, t.elt, Zeros(t.elt, length),
                                      Zeros(t.elt, capacity - length)), vs)
           [] t.ty = "map" ->
                IF Len(args) > 0 /\ args[1].k # "int" THEN Fail("error not int", vs)
                ELSE Ok(MapV(NewArr(vs), t.key, t.elt, [q \in {} |-> NilV]), vs)
           [] OTHER -> Fail("make unsupported type", vs)

\* func Len(t interface{}) (interface{}, error)
LenFn(t, vs) == IF HasLen(t) THEN Ok(IntV(LenOf(t)), vs) ELSE Panic(vs)

RECURSIVE Digits(_)
Digits(n) == IF n < 0 THEN 1 + Digits(0 - n) ELSE IF n < 10 THEN 1 ELSE 1 + Digits(n \div 10)

\* the number of bytes fmt.Println writes for v
Width(v) ==
    CASE v.k = "int" -> Digits(v.i)
      [] v.k = "string" -> Len(v.s)
      [] v.k = "bool" -> IF v.b THEN 4 ELSE 5

RECURSIVE Widths(_, _)
Widths(args, j) == IF j > Len(args) THEN 0 ELSE Width(args[j]) + 1 + Widths(args, j + 1)

\* fmt.Println(args...): the operands, a space between two of them, a newline
Println(args, vs) == Ok(IntV(IF Len(args) = 0 THEN 1 ELSE Widths(args, 1)), vs)

\* rf.Call(args) and the return of the call's first value and error; Call
\* panics on a nil argument and on a wrong number of arguments
CallFunc(f, args, vs) ==
    IF \E j \in 1..Len(args) : args[j].k = "nil" THEN Panic(vs)
    ELSE CASE f = "append" -> IF Len(args) < 1 THEN Panic(vs)
                              ELSE AppendFn(args[1], Tail(args), vs)
           [] f = "make" -> IF Len(args) < 1 THEN Panic(vs)
                            ELSE Make(args[1], Tail(args), vs)
           [] f = "len" -> IF Len(args) # 1 THEN Panic(vs) ELSE LenFn(args[1], vs)
           [] f = "Println" -> Println(args, vs)

\* case *ast.SliceExpr, after Low, High and X are evaluated
SliceValue(x, low0, high0, vs) ==
    IF high0.k = "nil" /\ ~HasLen(x) THEN Panic(vs)
    ELSE LET low == IF low0.k = "nil" THEN IntV(0) ELSE low0
             high == IF high0.k = "nil" THEN IntV(LenOf(x)) ELSE high0
         IN IF low.k # "int" \/ high.k # "int" THEN Fail("slice indexe must be an ints", vs)
            ELSE IF low.i < 0 THEN Fail("slice: index result of bounds", vs)
            ELSE IF ~HasLen(x) THEN Panic(vs)
            ELSE IF high.i >= LenOf(x) THEN Fail("slice: index result of bounds", vs)
            ELSE IF x.k = "map" \/ low.i > high.i THEN Panic(vs)
            ELSE IF x.k = "string" THEN Ok(StrV(SubSeq(x.s, low.i + 1, high.i)), vs)
            ELSE Ok(Slice(x.arr, x.off + low.i, x.elt, SubSeq(x.xs, low.i + 1, high.i),
                          SubSeq(x.xs, high.i + 1, Len(x.xs)) \o x.spare), vs)

----------------------------------------------------------------------------
(* func (s *Scope) interpret(body ast.Node) (interface{}, error)           *)

RECURSIVE interpret(_, _, _)
RECURSIVE EltLoop(_, _, _, _, _)
RECURSIVE ArgLoop(_, _, _, _, _)
RECURSIVE AssignLoop(_, _, _, _)
RECURSIVE BlockLoop(_, _, _, _)
RECURSIVE ForLoop(_, _, _, _)
RECURSIVE RangeLoop(_, _, _, _, _)
RECURSIVE ReturnLoop(_, _, _, _, _)

\* case *ast.ArrayType
ArrayTypeExpr(expr, s, vs) ==
    LET r == interpret(expr.elt, s, vs)
    IN IF Abort(r) THEN Prop(r)
       ELSE IF r.val.k # "type" THEN Panic(r.vs)
       ELSE Ok(SliceOf(r.val.ty), r.vs)

\* case *ast.BinaryExpr
BinaryExpr(expr, s, vs) ==
    LET x == interpret(expr.x, s, vs)
    IN IF Abort(x) THEN Prop(x)
       ELSE LET y == interpret(expr.y, s, x.vs)
            IN IF Abort(y) THEN Prop(y)
               ELSE binaryOp(x.val, y.val, expr.op, y.vs)

\* case *ast.CompositeLit, expr.Type an *ast.ArrayType: the element loop;
\* slice.Index(i).Set panics when the element is not of the element type
EltLoop(elts, i, acc, s, vs) ==
    IF i > Len(elts) THEN Ok(acc, vs)
    ELSE LET r == interpret(elts[i], s, vs)
         IN IF Abort(r) THEN Prop(r)
            ELSE IF r.val.k # acc.elt THEN Panic(r.vs)
            ELSE EltLoop(elts, i + 1, [acc EXCEPT !.xs[i] = r.val], s, r.vs)

\* case *ast.CompositeLit; the sources of the model hold slice literals only
CompositeLitExpr(expr, s, vs) ==
    LET typ == interpret(expr.type, s, vs)
    IN IF Abort(typ) THEN Prop(typ)
       ELSE IF expr.type.t = "ArrayType"
            THEN EltLoop(expr.elts, 1,
                         SliceV(NewArr(typ.vs), typ.val.elt,
                                [j \in 1..Len(expr.elts) |-> Zero(typ.val.elt)]),
                         s, typ.vs)
       ELSE Fail("unknown composite literal", typ.vs)

\* case *ast.IndexExpr
IndexExpr(expr, s, vs) ==
    LET X == interpret(expr.x, s, vs)
    IN IF Abort(X) THEN Prop(X)
       ELSE LET i == interpret(expr.index, s, X.vs)
            IN IF Abort(i) THEN Prop(i)
               ELSE IndexValue(X.val, i.val, i.vs)

\* case *ast.CallExpr: for i, arg := range expr.Args
ArgLoop(args, i, acc, s, vs) ==
    IF i > Len(args) THEN Ok(acc, vs)
    ELSE LET av == interpret(args[i], s, vs)
         IN IF Abort(av) THEN Prop(av)
            ELSE ArgLoop(args, i + 1, Append(acc, av.val), s, av.vs)

\* case *ast.CallExpr; expr.Ellipsis is not read
CallExprEval(expr, s, vs) ==
    LET fun == interpret(expr.fun, s, vs)
    IN IF Abort(fun) THEN Prop(fun)
       ELSE IF fun.val.k # "func" THEN Fail("not a function", fun.vs)
       ELSE LET args == ArgLoop(expr.args, 1, <<>>, s, fun.vs)
            IN IF Abort(args) THEN Prop(args)
               ELSE CallFunc(fun.val.f, args.val, args.vs)

\* case *ast.MapType
MapTypeExpr(expr, s, vs) ==
    LET keyType == interpret(expr.key, s, vs)
    IN IF Abort(keyType) THEN Prop(keyType)
       ELSE LET valType == interpret(expr.value, s, keyType.vs)
            IN IF Abort(valType) THEN Prop(valType)
               ELSE IF keyType.val.k # "type" \/ valType.val.k # "type" THEN Panic(valType.vs)
               ELSE Ok(MapOf(keyType.val.ty, valType.val.ty), valType.vs)

\* case *ast.SliceExpr
SliceExprEval(expr, s, vs) ==
    LET low == interpret(expr.low, s, vs)
    IN IF Abort(low) THEN Prop(low)
       ELSE LET high == interpret(expr.high, s, low.vs)
            IN IF Abort(high) THEN Prop(high)
               ELSE LET x == interpret(expr.x, s, high.vs)
                    IN IF Abort(x) THEN Prop(x)
                       ELSE SliceValue(x.val, low.val, high.val, x.vs)

\* case *ast.AssignStmt, case *ast.Ident of the target switch
AssignIdent(stmt, variable, rh, s, vs) ==
    LET v == Get(vs, s, variable.name)
    IN IF v = NilV /\ stmt.tok # ":=" THEN Fail("variable not defined", vs)
       ELSE IF stmt.tok \in {"+=", "-="}
            THEN LET b == binaryOp(v, rh, IF stmt.tok = "+=" THEN "+" ELSE "-", vs)
                 IN IF Abort(b) THEN Prop(b)
                    ELSE Ok(NilV, Set(vs, s, variable.name, b.val))
       ELSE Ok(NilV, Set(vs, s, variable.name, rh))

\* case *ast.AssignStmt, case *ast.IndexExpr of the target switch; the error
\* of interpret(variable.X) is overwritten by that of interpret(variable.Index);
\* the maps of the model are keyed by strings
AssignIndex(variable, rh, s, vs) ==
    LET x == interpret(variable.x, s, vs)
    IN IF x.st # "ok" THEN x
       ELSE LET index == interpret(variable.index, s, x.vs)
            IN IF Abort(index) THEN Prop(index)
               ELSE CASE x.val.k = "nil" -> Panic(index.vs)
                      [] x.val.k = "map" ->
                            IF index.val.k # x.val.key THEN Panic(index.vs)
                            ELSE IF rh.k # "nil" /\ TypeName(rh) # x.val.elt THEN Panic(index.vs)
                            ELSE Ok(NilV, PutElem(index.vs, x.val.arr, index.val.s, rh))
                      [] x.val.k = "slice" ->
                            IF index.val.k # "int" THEN Panic(index.vs)
                            ELSE IF index.val.i < 0 \/ index.val.i >= Len(x.val.xs) THEN Panic(index.vs)
                            ELSE IF TypeName(rh) # x.val.elt THEN Panic(index.vs)
                            ELSE Ok(NilV, StoreElem(index.vs, x.val.arr, x.val.off + index.val.i, rh))
                      [] OTHER -> Fail("unknown type", index.vs)

\* case *ast.AssignStmt: for i, lh := range stmt.Lhs
AssignLoop(stmt, i, s, vs) ==
    IF i > Len(stmt.lhs) THEN Ok(NilV, vs)
    ELSE LET rh == interpret(stmt.rhs[i], s, vs)
         IN IF Abort(rh) THEN Prop(rh)
            ELSE IF stmt.lhs[i].t = "Ident"
                 THEN LET a == AssignIdent(stmt, stmt.lhs[i], rh.val, s, rh.vs)
                      IN IF Abort(a) THEN a ELSE AssignLoop(stmt, i + 1, s, a.vs)
            ELSE IF stmt.lhs[i].t = "IndexExpr"
                 THEN LET a == AssignIndex(stmt.lhs[i], rh.val, s, rh.vs)
                      IN IF Abort(a) THEN a ELSE AssignLoop(stmt, i + 1, s, a.vs)
            ELSE Fail("unknown assignment type", rh.vs)

\* case *ast.AssignStmt
AssignStmt(stmt, s, vs) ==
    IF Len(stmt.lhs) # Len(stmt.rhs) THEN Fail("assignment mismatch", vs)
    ELSE AssignLoop(stmt, 1, s, vs)

\* case *ast.BlockStmt
BlockLoop(list, i, s, vs) ==
    IF i > Len(list) THEN Ok(NilV, vs)
    ELSE LET r == interpret(list[i], s, vs)
         IN IF r.st # "ok" \/ r.err # NoErr \/ i = Len(list) THEN r
            ELSE BlockLoop(list, i + 1, s, r.vs)

\* a loop that runs the post clause before the body
ForLoopPostFirst(stmt, fuel, s, vs) ==
    IF fuel = 0 THEN Hang(vs)
    ELSE LET ok == interpret(stmt.cond, s, vs)
         IN IF Abort(ok) THEN Prop(ok)
            ELSE IF ok.val.k # "bool" THEN Panic(ok.vs)
            ELSE IF ~ok.val.b THEN Ok(NilV, ok.vs)
            ELSE LET post == interpret(stmt.post, s, ok.vs)
                 IN IF post.st # "ok" THEN post
                    ELSE LET body == interpret(stmt.body, s, post.vs)
                         IN IF body.st # "ok" THEN body
                            ELSE ForLoop(stmt, fuel - 1, s, body.vs)

\* case *ast.ForStmt: the for { ... } loop; fuel bounds the iterations
ForLoop(stmt, fuel, s, vs) ==
    IF fuel = 0 THEN Hang(vs)
    ELSE LET ok == interpret(stmt.cond, s, vs)
         IN IF Abort(ok) THEN Prop(ok)
            ELSE IF ok.val.k # "bool" THEN Panic(ok.vs)
            ELSE IF ~ok.val.b THEN Ok(NilV, ok.vs)
            ELSE LET body == interpret(stmt.body, s, ok.vs)
                 IN IF body.st # "ok" THEN body
                    ELSE LET post == interpret(stmt.post, s, body.vs)
                         IN IF post.st # "ok" THEN post
                            ELSE ForLoop(stmt, fuel - 1, s, post.vs)

\* case *ast.ForStmt
ForStmtExec(stmt, s, vs) ==
    LET init == interpret(stmt.init, s, vs)
    IN IF Abort(init) THEN Prop(init)
       ELSE ForLoop(stmt, MaxIter, s, init.vs)

\* case *ast.IfStmt
IfStmtExec(stmt, s, vs) ==
    LET init == interpret(stmt.init, s, vs)
    IN IF init.st # "ok" THEN init
       ELSE LET cond == interpret(stmt.cond, s, init.vs)
            IN IF Abort(cond) THEN Prop(cond)
               ELSE IF cond.val.k # "bool" THEN Panic(cond.vs)
               ELSE IF cond.val.b THEN interpret(stmt.body, s, cond.vs)
               ELSE IF stmt.els # NilNode THEN interpret(stmt.els, s, cond.vs)
               ELSE Ok(NilV, cond.vs)

\* key = stmt.Key.(*ast.Ident).Name, "" when the clause is absent
RangeName(n) == IF n = NilNode THEN "" ELSE n.name

\* case *ast.RangeStmt, case reflect.Array, reflect.Slice
RangeLoop(stmt, xs, i, s, vs) ==
    IF i >= Len(xs) THEN Ok(NilV, vs)
    ELSE LET key == RangeName(stmt.key)
             value == RangeName(stmt.value)
             v1 == IF key # "" THEN Set(vs, s, key, IntV(i)) ELSE vs
             v2 == IF value # "" THEN Set(v1, s, value, xs[i + 1]) ELSE v1
             body == interpret(stmt.body, s, v2)
         IN IF body.st # "ok" THEN body
            ELSE RangeLoop(stmt, xs, i + 1, s, body.vs)

\* case *ast.RangeStmt; the maps of the model hold at most one entry, so
\* rv.MapKeys() has one order
RangeStmtExec(stmt, s, vs) ==
    LET ranger == interpret(stmt.x, s, vs)
    IN IF Abort(ranger) THEN Prop(ranger)
       ELSE CASE ranger.val.k = "nil" -> Panic(ranger.vs)
              [] ranger.val.k = "slice" -> RangeLoop(stmt, ranger.val.xs, 0, s, ranger.vs)
              [] ranger.val.k = "map" ->
                    IF DOMAIN ranger.val.m = {} THEN Ok(NilV, ranger.vs)
                    ELSE LET kk == CHOOSE q \in DOMAIN ranger.val.m : TRUE
                             key == RangeName(stmt.key)
                             value == RangeName(stmt.value)
                             v1 == IF key # "" THEN Set(ranger.vs, s, key, StrV(kk)) ELSE ranger.vs
                             v2 == IF value # "" THEN Set(v1, s, value, ranger.val.m[kk]) ELSE v1
                             body == interpret(stmt.body, s, v2)
                         IN IF body.st # "ok" THEN body ELSE Ok(NilV, body.vs)
              [] OTHER -> Fail("range unsupported", ranger.vs)

\* case *ast.ReturnStmt: for i, result := range stmt.Results
ReturnLoop(results, i, acc, s, vs) ==
    IF i > Len(results) THEN
        IF Len(acc) = 0 THEN Ok(NilV, vs)
        ELSE IF Len(acc) = 1 THEN Ok(acc[1], vs)
        ELSE Ok([k |-> "results", xs |-> acc], vs)
    ELSE LET out == interpret(results[i], s, vs)
         IN IF Abort(out) THEN out
            ELSE ReturnLoop(results, i + 1, Append(acc, out.val), s, out.vs)

interpret(node, s, vs) ==
    CASE node.t = "ArrayType" -> ArrayTypeExpr(node, s, vs)
      [] node.t = "BasicLit" -> Ok(node.v, vs)
      [] node.t = "BinaryExpr" -> BinaryExpr(node, s, vs)
      [] node.t = "CallExpr" -> CallExprEval(node, s, vs)
      [] node.t = "MapType" -> MapTypeExpr(node, s, vs)
      [] node.t = "CompositeLit" -> CompositeLitExpr(node, s, vs)
      [] node.t = "Ident" -> Ident(node, s, vs)
      [] node.t = "IndexExpr" -> IndexExpr(node, s, vs)
      [] node.t = "SliceExpr" -> SliceExprEval(node, s, vs)
      [] node.t = "AssignStmt" -> AssignStmt(node, s, vs)
      [] node.t = "BlockStmt" -> BlockLoop(node.list, 1, s, vs)
      [] node.t = "ExprStmt" -> interpret(node.x, s, vs)
      [] node.t = "ForStmt" -> ForStmtExec(node, s, vs)
      [] node.t = "IfStmt" -> IfStmtExec(node, s, vs)
      [] node.t = "RangeStmt" -> RangeStmtExec(node, s, vs)
      [] node.t = "ReturnStmt" -> ReturnLoop(node.results, 1, <<>>, s, vs)
      [] OTHER -> Fail("unknown NODE", vs)

----------------------------------------------------------------------------
(* Sources given to Eval, as the trees the parser returns for them         *)

IntLit(n) == Lit(IntV(n))
StrLit(x) == Lit(StrV(x))
Def(n, e) == Assign(":=", <<Id(n, "Var")>>, <<e>>)
Store(n, o, e) == Assign("=", <<Id(n, o)>>, <<e>>)
Prog(fam, id, n, list) == [fam |-> fam, id |-> id, n |-> n, body |-> Block(list)]

\* for i:=0;i<n;i=i+1 { a=a+i }, a resolved as o
SumLoop(n, o) ==
    ForStmt(Def("i", IntLit(0)), Bin("<", Id("i", "Var"), IntLit(n)),
            Store("i", "Var", Bin("+", Id("i", "Var"), IntLit(1))),
            Block(<<Store("a", o, Bin("+", Id("a", o), Id("i", "Var")))>>))

\* a:=0; for i:=0;i<n;i=i+1 { a=a+i }; a
ForSum(n) == Prog("sum", "ForSum", n, <<Def("a", IntLit(0)), SumLoop(n, "Var"), ExprStmt(Id("a", "Var"))>>)
\* the same source in three pieces (TestExecute)
DefA0 == Prog("sum", "DefA0", 0, <<Def("a", IntLit(0))>>)
ForOnly(n) == Prog("sum", "ForOnly", n, <<SumLoop(n, "Bad")>>)
ReadA == Prog("sum", "ReadA", 0, <<ExprStmt(Id("a", "Bad"))>>)

\* x := 2
DefX2 == Prog("assign", "DefX2", 0, <<Def("x", IntLit(2))>>)
\* x = 1
AssignX1 == Prog("assign", "AssignX1", 0, <<Store("x", "Bad", IntLit(1))>>)
\* x
ReadX == Prog("assign", "ReadX", 0, <<ExprStmt(Id("x", "Bad"))>>)
\* x := nil; x = 1
DefNilAssign ==
    Prog("assign", "DefNilAssign", 0, <<Def("x", Id("nil", "Bad")), Store("x", "Var", IntLit(1))>>)

AddA(n) == Store("a", "Var", Bin("+", Id("a", "Var"), IntLit(n)))
FailingStmt == Store("u", "Bad", IntLit(1))

\* a := 0; u = 1; a = a + 100
BlockErr == Prog("error", "BlockErr", 0, <<Def("a", IntLit(0)), FailingStmt, AddA(100)>>)
\* a := 0; for i:=0;i<2;i=i+1 { a = a+1; u = 1; a = a+10 }; a = a+100
ForBodyErr ==
    Prog("error", "ForBodyErr", 0,
         <<Def("a", IntLit(0)),
           ForStmt(Def("i", IntLit(0)), Bin("<", Id("i", "Var"), IntLit(2)),
                   Store("i", "Var", Bin("+", Id("i", "Var"), IntLit(1))),
                   Block(<<AddA(1), FailingStmt, AddA(10)>>)),
           AddA(100)>>)
\* a := 0; for i:=0;i<2;u=1 { i = i+1 }; a = a+100
ForPostErr ==
    Prog("error", "ForPostErr", 0,
         <<Def("a", IntLit(0)),
           ForStmt(Def("i", IntLit(0)), Bin("<", Id("i", "Var"), IntLit(2)), FailingStmt,
                   Block(<<Store("i", "Var", Bin("+", Id("i", "Var"), IntLit(1)))>>)),
           AddA(100)>>)
\* a := 0; if u = 1; a < 1 { a = a+10 }; a = a+100
IfInitErr ==
    Prog("error", "IfInitErr", 0,
         <<Def("a", IntLit(0)),
           IfStmt(FailingStmt, Bin("<", Id("a", "Var"), IntLit(1)), Block(<<AddA(10)>>), NilNode),
           AddA(100)>>)
\* a := 0; for k := range []int{1,2} { a = a+1; u = 1; a = a+10 }; a = a+100
RangeBodyErr ==
    Prog("error", "RangeBodyErr", 0,
         <<Def("a", IntLit(0)),
           RangeStmt(Id("k", "Var"), NilNode,
                     CompositeLit(ArrayType(Id("int", "Bad")), <<IntLit(1), IntLit(2)>>),
                     Block(<<AddA(1), FailingStmt, AddA(10)>>)),
           AddA(100)>>)

\* a := 0; if <c> { a = a+10 }; a = a+100
IfCond(id, c) ==
    Prog("cond", id, 0, <<Def("a", IntLit(0)), IfStmt(NilNode, c, Block(<<AddA(10)>>), NilNode), AddA(100)>>)
\* a := 0; for i:=0;<c>;i=i+1 { a = a+10 }; a = a+100
ForCond(id, c) ==
    Prog("cond", id, 0,
         <<Def("a", IntLit(0)),
           ForStmt(Def("i", IntLit(0)), c, Store("i", "Var", Bin("+", Id("i", "Var"), IntLit(1))),
                   Block(<<AddA(10)>>)),
           AddA(100)>>)
\* a:=3; if a>0 { return "positive" } else { return "negative" }
IfPositive ==
    Prog("cond", "IfPositive", 0,
         <<Def("a", IntLit(3)),
           IfStmt(NilNode, Bin(">", Id("a", "Var"), IntLit(0)),
                  Block(<<ReturnStmt(<<StrLit("positive")>>)>>),
                  Block(<<ReturnStmt(<<StrLit("negative")>>)>>))>>)

\* u
ReadU == Prog("ident", "ReadU", 0, <<ExprStmt(Id("u", "Bad"))>>)
\* mn[1] + u
MnPlusU == Prog("ident", "MnPlusU", 0, <<ExprStmt(Bin("+", Idx(Id("mn", "Bad"), IntLit(1)), Id("u", "Bad")))>>)

\* <x>[<i>]
IdxProg(id, n, x, i) == Prog("index", id, n, <<ExprStmt(Idx(x, i))>>)
\* a := []int{1,2,3}; a[n]
IdxLit(n) ==
    Prog("index", "IdxLit", n,
         <<Def("a", CompositeLit(ArrayType(Id("int", "Bad")), <<IntLit(1), IntLit(2), IntLit(3)>>)),
           ExprStmt(Idx(Id("a", "Var"), IntLit(n)))>>)

FixedProgs ==
    <<DefA0, ReadA, DefX2, AssignX1, ReadX, DefNilAssign,
      BlockErr, ForBodyErr, ForPostErr, IfInitErr, RangeBodyErr,
      IfCond("IfInt", IntLit(1)), IfCond("IfStr", StrLit("s")), IfCond("IfNil", Id("nil", "Bad")),
      IfCond("IfTrue", Id("true", "Bad")), IfCond("IfFalse", Id("false", "Bad")),
      ForCond("ForInt", IntLit(1)), ForCond("ForNil", Id("nil", "Bad")),
      IfPositive, ReadU, MnPlusU,
      IdxProg("IdxMnNeg", 0, Id("mn", "Bad"), Bin("-", IntLit(0), IntLit(1))),
      IdxProg("IdxMnStr", 0, Id("mn", "Bad"), StrLit("s")),
      IdxProg("IdxEfHit", 0, Id("ef", "Bad"), StrLit("xx")),
      IdxProg("IdxEfMiss", 0, Id("ef", "Bad"), StrLit("zz")),
      IdxProg("IdxEfInt", 0, Id("ef", "Bad"), IntLit(1)),
      IdxProg("IdxX", 0, Id("x", "Bad"), IntLit(0)), IdxLit(1), IdxLit(5)>>

Progs ==
    FixedProgs
    \o [j \in 1..(MaxN + 1) |-> ForSum(j - 1)]
    \o [j \in 1..(MaxN + 1) |-> ForOnly(j - 1)]
    \o [j \in 1..(MaxN + 2) |-> IdxProg("IdxMn", j - 1, Id("mn", "Bad"), IntLit(j - 1))]

\* the length of the slice literals that the sources index and slice
SeqLen == MaxN + 1
Elems == [j \in 1..SeqLen |-> IntV(j)]
\* []int{1, ..., SeqLen}
IntsLit == CompositeLit(ArrayType(Id("int", "Bad")), [j \in 1..SeqLen |-> IntLit(j)])

\* a bound of a slice expression: absent, or an integer of -1..SeqLen+1
Bound(i) == [has |-> TRUE, i |-> i]
NoBound == [has |-> FALSE, i |-> 0]
Bounds == <<NoBound>> \o [j \in 1..(SeqLen + 3) |-> Bound(j - 2)]
BoundExpr(b) ==
    IF ~b.has THEN NilNode
    ELSE IF b.i < 0 THEN Bin("-", IntLit(0), IntLit(0 - b.i))
    ELSE IntLit(b.i)

\* the j-th pair of bounds
LowOf(j) == Bounds[((j - 1) \div Len(Bounds)) + 1]
HighOf(j) == Bounds[((j - 1) % Len(Bounds)) + 1]

\* a := []int{1, ..., SeqLen}; a[l:h], for the j-th pair of bounds l, h
SliceLit(j) ==
    Prog("slice", "SliceLit", j,
         <<Def("a", IntsLit),
           ExprStmt(SliceExpr(Id("a", "Var"), BoundExpr(LowOf(j)), BoundExpr(HighOf(j))))>>)

SliceProgs == [j \in 1..(Len(Bounds) * Len(Bounds)) |-> SliceLit(j)]

\* []int{1, 2}
PairLit == CompositeLit(ArrayType(Id("int", "Bad")), <<IntLit(1), IntLit(2)>>)
Targets(names) == [j \in 1..Len(names) |-> Id(names[j], "Var")]
\* <names> := <rhs>; n is 1 when the counts are those of a legal assignment
MultiDef(id, n, names, rhs) == Prog("massign", id, n, <<Assign(":=", Targets(names), rhs)>>)

MultiProgs ==
    <<\* a, b := 1, 2
      MultiDef("PairDef", 1, <<"a", "b">>, <<IntLit(1), IntLit(2)>>),
      \* a, b := []int{1, 2}
      MultiDef("Destructure", 1, <<"a", "b">>, <<PairLit>>),
      \* a, b := 1, 2, 3
      MultiDef("TwoFromThree", 0, <<"a", "b">>, <<IntLit(1), IntLit(2), IntLit(3)>>),
      \* a := 1, 2
      MultiDef("OneFromTwo", 0, <<"a">>, <<IntLit(1), IntLit(2)>>),
      \* a, b, c := []int{1, 2}
      MultiDef("ThreeFromPair", 0, <<"a", "b", "c">>, <<PairLit>>),
      \* a, b := 1
      MultiDef("TwoFromInt", 0, <<"a", "b">>, <<IntLit(1)>>)>>

\* append(<args>) and append(<args>...)
AppendCall(args) == CallExpr(Id("append", "Bad"), args, FALSE)
AppendSpreadCall(args) == CallExpr(Id("append", "Bad"), args, TRUE)
\* the elements 6, 7, ... that the sources append
Extra(n) == [j \in 1..n |-> IntV(5 + j)]

\* a := []int{1, ..., SeqLen}; a = append(a, 6, ...); a, with n appended elements
AppendMany(n) ==
    Prog("append", "AppendMany", n,
         <<Def("a", IntsLit),
           Store("a", "Var", AppendCall(<<Id("a", "Var")>> \o [j \in 1..n |-> IntLit(5 + j)])),
           ExprStmt(Id("a", "Var"))>>)
\* a := []int{1, ..., SeqLen}; b := []int{1, 2}; a = append(a, b...); a
AppendSpread ==
    Prog("append", "AppendSpread", 0,
         <<Def("a", IntsLit), Def("b", PairLit),
           Store("a", "Var", AppendSpreadCall(<<Id("a", "Var"), Id("b", "Var")>>)),
           ExprStmt(Id("a", "Var"))>>)
\* a := []int{1, ..., SeqLen}; append(a, "a")
AppendStr ==
    Prog("append", "AppendStr", 0,
         <<Def("a", IntsLit), ExprStmt(AppendCall(<<Id("a", "Var"), StrLit("a")>>))>>)

AppendProgs == <<AppendSpread, AppendStr>> \o [j \in 1..(MaxN + 1) |-> AppendMany(j - 1)]

\* make([]int, 1, 1 + n)
MakeInts(n) == CallExpr(Id("make", "Bad"), <<ArrayType(Id("int", "Bad")), IntLit(1), IntLit(1 + n)>>, FALSE)

\* a := make([]int, 1, 1+n); b := append(a, 1); c := append(a, 2); b[1]
TwoAppends(n) ==
    Prog("alias", "TwoAppends", n,
         <<Def("a", MakeInts(n)),
           Def("b", AppendCall(<<Id("a", "Var"), IntLit(1)>>)),
           Def("c", AppendCall(<<Id("a", "Var"), IntLit(2)>>)),
           ExprStmt(Idx(Id("b", "Var"), IntLit(1)))>>)
\* a := make([]int, 1, 1+n); b := append(a, 1); b[0] = 9; a[0]
WriteThrough(n) ==
    Prog("alias", "WriteThrough", n,
         <<Def("a", MakeInts(n)),
           Def("b", AppendCall(<<Id("a", "Var"), IntLit(1)>>)),
           Assign("=", <<Idx(Id("b", "Var"), IntLit(0))>>, <<IntLit(9)>>),
           ExprStmt(Idx(Id("a", "Var"), IntLit(0)))>>)
\* a := []int{1, ..., SeqLen}; b := append(a, 4); b[0] = 9; a[0]
LitAppend ==
    Prog("alias", "LitAppend", 0,
         <<Def("a", IntsLit),
           Def("b", AppendCall(<<Id("a", "Var"), IntLit(4)>>)),
           Assign("=", <<Idx(Id("b", "Var"), IntLit(0))>>, <<IntLit(9)>>),
           ExprStmt(Idx(Id("a", "Var"), IntLit(0)))>>)

AliasProgs ==
    <<LitAppend>> \o [j \in 1..(MaxN + 1) |-> TwoAppends(j - 1)]
    \o [j \in 1..(MaxN + 1) |-> WriteThrough(j - 1)]

\* print(a)
PrintA == ExprStmt(CallExpr(Id("print", "Bad"), <<Id("a", "Var")>>, FALSE))
\* if a > 0 { return "positive" } else { return "negative" }
IfSign ==
    IfStmt(NilNode, Bin(">", Id("a", "Var"), IntLit(0)),
           Block(<<ReturnStmt(<<StrLit("positive")>>)>>),
           Block(<<ReturnStmt(<<StrLit("negative")>>)>>))

\* a := n; if a > 0 { return "positive" } else { return "negative" }; print(a)
IfReturnPrint(n) == Prog("return", "IfReturnPrint", n, <<Def("a", IntLit(n)), IfSign, PrintA>>)
\* a := n; if a > 0 { return "positive" } else { return "negative" }
IfReturnLast(n) == Prog("return", "IfReturnLast", n, <<Def("a", IntLit(n)), IfSign>>)
\* a := n; return a; a = a + 100
ReturnThenAdd(n) ==
    Prog("return", "ReturnThenAdd", n,
         <<Def("a", IntLit(n)), ReturnStmt(<<Id("a", "Var")>>), AddA(100)>>)
\* a := n; return
ReturnNone(n) == Prog("return", "ReturnNone", n, <<Def("a", IntLit(n)), ReturnStmt(<<>>)>>)
\* a := n; return a, 7
ReturnTwo(n) ==
    Prog("return", "ReturnTwo", n, <<Def("a", IntLit(n)), ReturnStmt(<<Id("a", "Var"), IntLit(7)>>)>>)

ReturnProgs ==
    [j \in 1..(MaxN + 1) |-> IfReturnPrint(j - 1)]
    \o [j \in 1..(MaxN + 1) |-> IfReturnLast(j - 1)]
    \o [j \in 1..(MaxN + 1) |-> ReturnThenAdd(j - 1)]
    \o [j \in 1..(MaxN + 1) |-> ReturnNone(j - 1)]
    \o [j \in 1..(MaxN + 1) |-> ReturnTwo(j - 1)]

\* the sources over sequences
SeqProgs == SliceProgs \o MultiProgs \o AppendProgs \o AliasProgs \o ReturnProgs

\* bindings the host makes with Set on any scope (TestPresetFunc)
SetInputs ==
    <<[name |-> "x", val |-> IntV(1)], [name |-> "x", val |-> IntV(2)],
      [name |-> "x", val |-> NilV], [name |-> "age", val |-> IntV(3)]>>

\* bindings the host presets on the root before it evaluates (TestScopePreset)
Presets ==
    SetInputs
    \o <<[name |-> "mn", val |-> SliceV(1, "string", <<StrV("xx"), StrV("yy"), StrV("zz")>>)],
         [name |-> "ef", val |-> MapV(2, "string", "int", "xx" :> IntV(3))]>>

\* the function the tests preset before they evaluate (TestIF)
SeqPresets == <<[name |-> "print", val |-> FuncV("Println")]>>

\* names the host looks up with Get
GetNames == {"x", "age"}

----------------------------------------------------------------------------
(* The host's operations.  steps counts the host's Set and Get calls and   *)
(* evals its Eval calls; a panic or an endless loop in Eval ends the run.  *)
(* run follows the three Eval calls of TestExecute: stage 1 after          *)
(* `a := 0`, 2 after the loop over n that directly follows it, 3 after the *)
(* read of a that directly follows the loop.                               *)

\* func (s *Scope) Eval(src string) (interface{}, error), for a source that
\* parses
Eval(vs, s, p) == interpret(p.body, s, vs)

Op(op, s, name, p, r) ==
    [op |-> op, s |-> s, name |-> name, fam |-> p.fam, prog |-> p.id, n |-> p.n,
     st |-> r.st, val |-> r.val, err |-> r.err]

----------------------------------------------------------------------------
(* Goroutines that each run one Eval (TestConcurrent, TestNewScope).  A    *)
(* step of a goroutine is one access to the map of a scope: the lookup of  *)
(* one iteration of the loop of Get or of Set, or the store of Set; what   *)
(* the evaluator computes between two accesses is local to the goroutine.  *)

Procs == 1..MaxProcs

\* a name the host presets on the root
SharedName == "x"
\* the name that a source with a definition defines: one the host never presets
DefName == "a"

\* the sources the goroutines evaluate, n the number of the goroutine
\*   lit:  2 + n              (TestConcurrent)
\*   read: x + n
\*   def:  a := n; a + x
ConcSrc(kind, n) == [kind |-> kind, n |-> n]
ConcKinds == <<"lit", "read", "def">>

\* the tree of a source
ConcProg(src) ==
    CASE src.kind = "lit" ->
            Prog("conc", "lit", src.n, <<ExprStmt(Bin("+", IntLit(2), IntLit(src.n)))>>)
      [] src.kind = "read" ->
            Prog("conc", "read", src.n, <<ExprStmt(Bin("+", Id("x", "Bad"), IntLit(src.n)))>>)
      [] src.kind = "def" ->
            Prog("conc", "def", src.n,
                 <<Def(DefName, IntLit(src.n)),
                   ExprStmt(Bin("+", Id(DefName, "Var"), Id("x", "Bad")))>>)

\* the calls of Get and Set that interpret makes for a source, in order: an
\* identifier is one Get; an assignment to a name is a Get of the name, then
\* a Set
GetCall(name) == [op |-> "get", name |-> name]
SetCall(name) == [op |-> "set", name |-> name]
Calls(src) ==
    CASE src.kind = "lit" -> <<>>
      [] src.kind = "read" -> <<GetCall("x")>>
      [] src.kind = "def" -> <<GetCall(DefName), SetCall(DefName), GetCall(DefName), GetCall("x")>>

\* case ast.Bad of the identifier handler, v the value Get returned
IdentBad(v, name) == IF v # NilV THEN v ELSE StrV(name)

\* what the source evaluates to, vals the values its Get calls returned
Result(src, vals) ==
    CASE src.kind = "lit" -> binaryOp(IntV(2), IntV(src.n), "+", <<>>)
      [] src.kind = "read" -> binaryOp(IdentBad(vals[1], "x"), IntV(src.n), "+", <<>>)
      [] src.kind = "def" -> binaryOp(vals[2], IdentBad(vals[3], "x"), "+", <<>>)

NoRes == [val |-> NilV, err |-> NoErr]
Res(r) == [val |-> r.val, err |-> r.err]

\* a goroutine: pc is "idle" before go func, "call" between two calls,
\* "get" / "set" inside the loop of Get / Set with currentScope = cur,
\* "store" before the store of Set into scope cur, "done" after Eval has
\* returned res.  alone is what Eval returns for the source when nothing
\* else runs, before the mappings when the goroutine started.
Idle ==
    [pc |-> "idle", s |-> NoScope, src |-> ConcSrc("lit", 0), ip |-> 0, cur |-> NoScope,
     vals |-> <<>>, res |-> NoRes, alone |-> NoRes, before |-> [t \in Scopes |-> EmptyVars]]

NoProg == [fam |-> "", id |-> "", n |-> 0]
NoRun == [stage |-> 0, n |-> 0]

\* func NewScope() *Scope
Init ==
    /\ Vars = [s \in Scopes |-> EmptyVars]
    /\ Parent = [s \in Scopes |-> NoScope]
    /\ nscopes = 1
    /\ lastOp = Op("NewScope", 1, "", NoProg, Ok(NilV, <<>>))
    /\ steps = 0
    /\ evals = 0
    /\ run = NoRun
    /\ procs = [p \in Procs |-> Idle]

Live == lastOp.st = "ok"

RunAfter(p, r) ==
    IF r.st # "ok" \/ r.err # NoErr THEN NoRun
    ELSE IF p.id = "DefA0" THEN [stage |-> 1, n |-> 0]
    ELSE IF p.id = "ForOnly" /\ run.stage = 1 THEN [stage |-> 2, n |-> p.n]
    ELSE IF p.id = "ReadA" /\ run.stage = 2 THEN [stage |-> 3, n |-> run.n]
    ELSE NoRun

\* func (s *Scope) NewChild() *Scope
NewChild(s) ==
    /\ Live
    /\ s <= nscopes
    /\ nscopes < MaxScopes
    /\ nscopes' = nscopes + 1
    /\ Parent' = [Parent EXCEPT ![nscopes + 1] = s]
    /\ Vars' = [Vars EXCEPT ![nscopes + 1] = EmptyVars]
    /\ lastOp' = Op("NewChild", s, "", NoProg, Ok(IntV(nscopes + 1), <<>>))
    /\ UNCHANGED <<steps, evals, run, procs>>

SetOp(s, in) ==
    /\ Live
    /\ s <= nscopes
    /\ steps < MaxSteps
    /\ Vars' = Set(Vars, s, in.name, in.val)
    /\ lastOp' = Op("Set", s, in.name, NoProg, Ok(in.val, <<>>))
    /\ steps' = steps + 1
    /\ UNCHANGED <<Parent, nscopes, evals, run, procs>>

GetOp(s, name) ==
    /\ Live
    /\ s <= nscopes
    /\ steps < MaxSteps
    /\ lastOp' = Op("Get", s, name, NoProg, Ok(Get(Vars, s, name), <<>>))
    /\ steps' = steps + 1
    /\ UNCHANGED <<Vars, Parent, nscopes, evals, run, procs>>

KeysOp(s) ==
    /\ Live
    /\ s <= nscopes
    /\ steps < MaxSteps
    /\ LET r == Keys(Vars, s)
       IN lastOp' = [Op("Keys", s, "", NoProg, Ok(NilV, <<>>)) EXCEPT
                        !.st = r.st, !.val = [k |-> "keys", names |-> r.keys, visited |-> r.visited]]
    /\ steps' = steps + 1
    /\ UNCHANGED <<Vars, Parent, nscopes, evals, run, procs>>

EvalOp(s, p) ==
    /\ Live
    /\ s <= nscopes
    /\ evals < MaxEvals
    /\ LET r == Eval(Vars, s, p)
       IN /\ Vars' = r.vs
          /\ lastOp' = Op("Eval", s, "", p, r)
          /\ run' = RunAfter(p, r)
    /\ evals' = evals + 1
    /\ UNCHANGED <<Parent, nscopes, steps, procs>>

Started(p) == procs[p].pc # "idle"
NoneStarted == \A p \in Procs : ~Started(p)

RECURSIVE Ancestors(_)
Ancestors(s) == IF s = NoScope THEN {} ELSE {s} \cup Ancestors(Parent[s])

\* a goroutine that defines a name evaluates on a child scope of its own:
\* no other goroutine evaluates on a scope whose chain holds that child
Own(p, s, src) ==
    /\ src.kind = "def" => (Parent[s] # NoScope /\ \A q \in Procs \ {p} :
                                Started(q) => s \notin Ancestors(procs[q].s))
    /\ \A q \in Procs \ {p} :
          (Started(q) /\ procs[q].src.kind = "def") => procs[q].s \notin Ancestors(s)

\* the goroutine moves to its next call, or to the end of Eval
NextCall(g) ==
    IF g.ip >= Len(Calls(g.src))
    THEN [g EXCEPT !.pc = "done", !.res = Res(Result(g.src, g.vals))]
    ELSE [g EXCEPT !.pc = Calls(g.src)[g.ip + 1].op, !.ip = g.ip + 1, !.cur = g.s]

\* go func(n int) { v, e := s.Eval(...) }(i)
Go(p, s, src) ==
    /\ Live
    /\ ~Started(p)
    /\ \A q \in Procs : q < p => Started(q)
    /\ s <= nscopes
    /\ Own(p, s, src)
    /\ procs' = [procs EXCEPT ![p] =
            NextCall([Idle EXCEPT !.pc = "call", !.s = s, !.src = src,
                                  !.alone = Res(Eval(Vars, s, ConcProg(src))),
                                  !.before = Vars])]
    /\ UNCHANGED <<Vars, Parent, nscopes, lastOp, steps, evals, run>>

\* val, exists = currentScope.Vars[name]; currentScope = currentScope.Parent
GetStep(p) ==
    LET g == procs[p]
        name == Calls(g.src)[g.ip].name
    IN /\ g.pc = "get"
       /\ procs' = [procs EXCEPT ![p] =
               IF Exists(Vars, g.cur, name)
               THEN NextCall([g EXCEPT !.vals = Append(g.vals, Vars[g.cur][name])])
               ELSE IF Parent[g.cur] = NoScope
                    THEN NextCall([g EXCEPT !.vals = Append(g.vals, NilV)])
               ELSE [g EXCEPT !.cur = Parent[g.cur]]]
       /\ UNCHANGED <<Vars, Parent, nscopes, lastOp, steps, evals, run>>

\* _, exists = currentScope.Vars[name] in the loop of Set
ExistsStep(p) ==
    LET g == procs[p]
        name == Calls(g.src)[g.ip].name
    IN /\ g.pc = "set"
       /\ procs' = [procs EXCEPT ![p] =
               IF Exists(Vars, g.cur, name) THEN [g EXCEPT !.pc = "store"]
               ELSE IF Parent[g.cur] = NoScope THEN [g EXCEPT !.pc = "store", !.cur = g.s]
               ELSE [g EXCEPT !.cur = Parent[g.cur]]]
       /\ UNCHANGED <<Vars, Parent, nscopes, lastOp, steps, evals, run>>

\* currentScope.Vars[name] = val, or s.Vars[name] = val
StoreStep(p) ==
    LET g == procs[p]
        name == Calls(g.src)[g.ip].name
    IN /\ g.pc = "store"
       /\ Vars' = [Vars EXCEPT ![g.cur][name] = IntV(g.src.n)]
       /\ procs' = [procs EXCEPT ![p] = NextCall(g)]
       /\ UNCHANGED <<Parent, nscopes, lastOp, steps, evals, run>>

\* the scope chain under the host's own calls
Next ==
    \/ \E s \in Scopes : NewChild(s)
    \/ \E s \in Scopes, j \in 1..Len(SetInputs) : SetOp(s, SetInputs[j])
    \/ \E s \in Scopes, name \in GetNames : GetOp(s, name)
    \/ \E s \in Scopes : KeysOp(s)

Spec == Init /\ [][Next]_vars

\* a host that presets bindings on the root and builds its scopes, then
\* evaluates sources of one family on one scope, one after the other (as
\* each test function does)
Root == 1
EvalScopes == MaxScopes - 1
Setup == evals = 0 /\ steps < MaxSetup
Session(s, p) == evals = 0 \/ (lastOp.fam = p.fam /\ lastOp.s = s)

NextEval ==
    \/ \E s \in Scopes : evals = 0 /\ nscopes < EvalScopes /\ NewChild(s)
    \/ \E j \in 1..Len(Presets) : Setup /\ SetOp(Root, Presets[j])
    \/ \E s \in Scopes, j \in 1..Len(Progs) : Session(s, Progs[j]) /\ EvalOp(s, Progs[j])

SpecEval == Init /\ [][NextEval]_vars

\* the same host, evaluating the sources over sequences
NextSeq ==
    \/ \E s \in Scopes : evals = 0 /\ nscopes < EvalScopes /\ NewChild(s)
    \/ \E j \in 1..Len(SeqPresets) : Setup /\ SetOp(Root, SeqPresets[j])
    \/ \E s \in Scopes, j \in 1..Len(SeqProgs) : Session(s, SeqProgs[j]) /\ EvalOp(s, SeqProgs[j])

SpecSeq == Init /\ [][NextSeq]_vars

\* a host that builds its scopes and presets a binding on the root, then
\* starts goroutines that each evaluate one source, goroutine p on the root
\* or on the scope the host made for it
ChildOf(p) == p + 1
NextConc ==
    \/ \E s \in Scopes : NoneStarted /\ NewChild(s)
    \/ \E j \in 1..Len(SetInputs) : NoneStarted /\ Setup /\ SetOp(Root, SetInputs[j])
    \/ \E p \in Procs : \E s \in {Root, ChildOf(p)}, j \in 1..Len(ConcKinds) :
            Go(p, s, ConcSrc(ConcKinds[j], p))
    \/ \E p \in Procs : GetStep(p)
    \/ \E p \in Procs : ExistsStep(p)
    \/ \E p \in Procs : StoreStep(p)

SpecConc == Init /\ [][NextConc]_vars

----------------------------------------------------------------------------
(* Properties                                                              *)

\* the chain of s: s first, then its ancestors in order
RECURSIVE ChainOf(_)
ChainOf(s) == IF s = NoScope THEN <<>> ELSE <<s>> \o ChainOf(Parent[s])

\* the positions of the chain whose scope binds name
Binders(vs, chain, name) == {j \in 1..Len(chain) : vs[chain[j]][name] # Unbound}

\* the nearest scope of the chain of s that binds name, NoScope when none does
Nearest(vs, s, name) ==
    LET chain == ChainOf(s)
        b == Binders(vs, chain, name)
    IN IF b = {} THEN NoScope
       ELSE chain[CHOOSE j \in b : \A q \in b : j <= q]

BoundInChain(vs, s, name) == Nearest(vs, s, name) # NoScope

SetStep == lastOp'.op = "Set" /\ steps' = steps + 1
EvalStep(id) == lastOp'.op = "Eval" /\ lastOp'.prog = id /\ evals' = evals + 1
Evaluated(id) == lastOp.op = "Eval" /\ lastOp.prog = id
Returned == lastOp.st = "ok"

\* C1: Set(name, v) on s overwrites the binding of the nearest scope of the
\* chain of s that binds name, or creates it in s when no scope of the chain
\* binds it; the mapping of every other scope, and every other name, is
\* left as it was.
C1_SetWritesNearestBinder ==
    [][SetStep =>
        LET s == lastOp'.s
            name == lastOp'.name
            near == Nearest(Vars, s, name)
            target == IF near # NoScope THEN near ELSE s
        IN Vars' = [Vars EXCEPT ![target][name] = lastOp'.val]]_vars

\* C1: a child's Set of a name its parent binds has changed the parent's
\* binding and left the child without a local one.
C1_Witness ==
    /\ lastOp.op = "Set" /\ lastOp.name = "x" /\ lastOp.val = IntV(2)
    /\ Parent[lastOp.s] # NoScope
    /\ Vars[lastOp.s]["x"] = Unbound
    /\ Vars[Parent[lastOp.s]]["x"] = IntV(2)

\* C2: Get(k) returns the value of the innermost scope of the chain that
\* binds k (nil when none does), so on a child without a local binding of k
\* it returns what Get(k) returns on the parent; and the mapping of a scope
\* just returned by NewChild is empty.
C2_ChildGetIsParentGet ==
    /\ lastOp.op = "Get" =>
         LET s == lastOp.s
             k == lastOp.name
             near == Nearest(Vars, Parent[s], k)
             parentGet == IF near # NoScope THEN Vars[near][k] ELSE NilV
         IN /\ Vars[s][k] # Unbound => lastOp.val = Vars[s][k]
            /\ Vars[s][k] = Unbound => lastOp.val = parentGet
    /\ lastOp.op = "NewChild" => Vars[lastOp.val.i] = EmptyVars

\* C2: a Get on a grandchild or child without a local x has returned the
\* value an ancestor binds.
C2_Witness ==
    /\ lastOp.op = "Get" /\ lastOp.name = "x"
    /\ Parent[lastOp.s] # NoScope
    /\ Vars[lastOp.s]["x"] = Unbound
    /\ lastOp.val = IntV(1)

\* C3: a name bound to nil is defined: a non-defining assignment to a name
\* that some scope of the chain binds (to nil or to anything else) succeeds.
C3_NilBoundIsDefined ==
    [][(EvalStep("AssignX1") /\ BoundInChain(Vars, lastOp'.s, "x")) =>
        (lastOp'.st = "ok" /\ lastOp'.err = NoErr)]_vars

\* C4: x := 2 evaluated on s binds x in s itself and changes the mapping of
\* no other scope.
C4_DefineBindsLocally ==
    [][EvalStep("DefX2") =>
        /\ Vars'[lastOp'.s]["x"] = IntV(2)
        /\ \A t \in Scopes : t # lastOp'.s => Vars'[t] = Vars[t]]_vars

\* C5: the counter i that the init clause of a for statement introduces is
\* not bound, after the loop, in the scope the statement was evaluated on.
C5_LoopCounterStaysInLoop ==
    [][(EvalStep("ForOnly") /\ Vars[lastOp'.s]["i"] = Unbound) =>
        Vars'[lastOp'.s]["i"] = Unbound]_vars

Tri(n) == (n * (n - 1)) \div 2

\* C6: a:=0; for i:=0;i<n;i=i+1 { a=a+i }; a yields n*(n-1)/2 and leaves
\* i = n, and the three statements given to three successive Eval calls on
\* one scope yield the same value.
C6_LoopSum ==
    /\ Evaluated("ForSum") =>
         /\ Returned /\ lastOp.err = NoErr
         /\ lastOp.val = IntV(Tri(lastOp.n))
         /\ Get(Vars, lastOp.s, "i") = IntV(lastOp.n)
    /\ run.stage = 3 =>
         /\ Returned /\ lastOp.err = NoErr
         /\ lastOp.val = IntV(Tri(run.n))

\* C6: the third of three successive Eval calls has returned the sum for
\* the largest bound.
C6_Witness ==
    /\ run.stage = 3 /\ run.n = MaxN
    /\ Evaluated("ReadA")
    /\ lastOp.val = IntV(Tri(MaxN))

\* the value of a when the failing statement u = 1 of each source is reached
AtFailure ==
    [BlockErr |-> 0, ForBodyErr |-> 1, ForPostErr |-> 0, IfInitErr |-> 0, RangeBodyErr |-> 1]

\* C7: the error of the failing statement, in a block, a for body, a for
\* post clause, an if init clause or a range body, is what Eval returns, and
\* nothing after the failing statement has run: a is what it was there.
C7_FirstErrorAborts ==
    (lastOp.op = "Eval" /\ lastOp.fam = "error") =>
        /\ Returned
        /\ lastOp.err = "variable not defined"
        /\ Get(Vars, lastOp.s, "a") = IntV(AtFailure[lastOp.prog])

\* C8: an if or for whose condition is an int, a string or nil makes Eval
\* return an error, and runs neither the branch nor the body.
C8_NonBooleanConditionIsError ==
    (lastOp.op = "Eval" /\ lastOp.prog \in {"IfInt", "IfStr", "IfNil", "ForInt", "ForNil"}) =>
        /\ Returned
        /\ lastOp.err # NoErr
        /\ Get(Vars, lastOp.s, "a") = IntV(0)

\* C9: an identifier that is no builtin type, no builtin and bound in no
\* scope of the chain makes Eval return an error.
C9_UndefinedNameIsError ==
    (lastOp.op = "Eval" /\ lastOp.prog \in {"ReadU", "MnPlusU"}) =>
        (Returned /\ lastOp.err # NoErr)

MnElems == <<StrV("xx"), StrV("yy"), StrV("zz")>>

\* C10: an index read returns: on the map ef, the value of a present key and
\* the zero value of the value type, without error, for a missing key; on
\* the slice mn of length 3, element i for 0 <= i < 3, an error for any
\* other integer and for a non-integer index.
C10_IndexIsTotal ==
    (lastOp.op = "Eval" /\ lastOp.fam = "index") =>
        /\ (lastOp.prog \in {"IdxEfHit", "IdxEfMiss", "IdxEfInt"}
              /\ Get(Vars, lastOp.s, "ef").k = "map") =>
                /\ Returned /\ lastOp.err = NoErr
                /\ lastOp.val = IF lastOp.prog = "IdxEfHit" THEN IntV(3) ELSE IntV(0)
        /\ (lastOp.prog \in {"IdxMn", "IdxMnNeg", "IdxMnStr"}
              /\ Get(Vars, lastOp.s, "mn").k = "slice") =>
                /\ Returned
                /\ IF lastOp.prog = "IdxMn" /\ lastOp.n < 3
                   THEN lastOp.err = NoErr /\ lastOp.val = MnElems[lastOp.n + 1]
                   ELSE lastOp.err # NoErr
        /\ lastOp.prog = "IdxLit" =>
                /\ Returned
                /\ IF lastOp.n < 3 THEN lastOp.err = NoErr /\ lastOp.val = IntV(lastOp.n + 1)
                   ELSE lastOp.err # NoErr

\* C11: a[l:h] on a slice of length n: an absent l is 0 and an absent h is
\* n; when 0 <= l <= h <= n the result is the elements l..h-1 in order, and
\* for any other integer bounds Eval returns an error.
C11_SliceBounds ==
    Evaluated("SliceLit") =>
        LET l == LowOf(lastOp.n)
            h == HighOf(lastOp.n)
            lo == IF l.has THEN l.i ELSE 0
            hi == IF h.has THEN h.i ELSE SeqLen
        IN /\ Returned
           /\ IF 0 <= lo /\ lo <= hi /\ hi <= SeqLen
              THEN /\ lastOp.err = NoErr
                   /\ lastOp.val.k = "slice"
                   /\ lastOp.val.xs = SubSeq(Elems, lo + 1, hi)
              ELSE lastOp.err # NoErr

\* C12: an assignment with as many targets as right-hand expressions, or
\* with one right-hand expression whose value is a sequence of as many
\* elements as there are targets, succeeds and target k receives value k;
\* any other combination returns an error and changes no binding.
C12_AssignmentCount ==
    [][(lastOp'.op = "Eval" /\ lastOp'.fam = "massign" /\ evals' = evals + 1) =>
        /\ lastOp'.st = "ok"
        /\ IF lastOp'.n = 1
           THEN /\ lastOp'.err = NoErr
                /\ Get(Vars', lastOp'.s, "a") = IntV(1)
                /\ Get(Vars', lastOp'.s, "b") = IntV(2)
           ELSE lastOp'.err # NoErr /\ Vars' = Vars]_vars

\* C13: append(a, e1, ..., en) returns the elements of a followed by e1..en
\* in order, append(a, b...) the elements of a followed by those of b, and
\* an appended element of another type than the elements of a makes the
\* call fail with an error and no value.
C13_AppendAppends ==
    (lastOp.op = "Eval" /\ lastOp.fam = "append") =>
        /\ Returned
        /\ lastOp.prog = "AppendMany" =>
              /\ lastOp.err = NoErr
              /\ lastOp.val.k = "slice"
              /\ lastOp.val.xs = Elems \o Extra(lastOp.n)
        /\ lastOp.prog = "AppendSpread" =>
              /\ lastOp.err = NoErr
              /\ lastOp.val.k = "slice"
              /\ lastOp.val.xs = Elems \o <<IntV(1), IntV(2)>>
        /\ lastOp.prog = "AppendStr" => (lastOp.err # NoErr /\ lastOp.val = NilV)

\* C14: after b := append(a, e), for every length and capacity of a, a has
\* the length and the elements it had, a later append to a does not change
\* an element of b, and an element assigned through b is not seen through a.
C14_CopyOnAppend ==
    (lastOp.op = "Eval" /\ lastOp.fam = "alias") =>
        /\ Returned /\ lastOp.err = NoErr
        /\ lastOp.prog = "TwoAppends" =>
              /\ lastOp.val = IntV(1)
              /\ Get(Vars, lastOp.s, "a").xs = <<IntV(0)>>
              /\ Get(Vars, lastOp.s, "b").xs = <<IntV(0), IntV(1)>>
              /\ Get(Vars, lastOp.s, "c").xs = <<IntV(0), IntV(2)>>
        /\ lastOp.prog = "WriteThrough" =>
              /\ lastOp.val = IntV(0)
              /\ Get(Vars, lastOp.s, "a").xs = <<IntV(0)>>
              /\ Get(Vars, lastOp.s, "b").xs = <<IntV(9), IntV(1)>>
        /\ lastOp.prog = "LitAppend" =>
              /\ lastOp.val = IntV(1)
              /\ Get(Vars, lastOp.s, "a").xs = Elems
              /\ Get(Vars, lastOp.s, "b").xs = <<IntV(9)>> \o Tail(Elems) \o <<IntV(4)>>

Sign(n) == IF n > 0 THEN StrV("positive") ELSE StrV("negative")

\* C16: an executed return statement, at the top level of the source or in
\* a branch of an if statement, ends the evaluation: Eval returns its value
\* (nil for no result, the value for one, the sequence for several) and no
\* later statement of the source runs.
C16_ReturnStops ==
    (lastOp.op = "Eval" /\ lastOp.fam = "return") =>
        /\ Returned /\ lastOp.err = NoErr
        /\ Get(Vars, lastOp.s, "a") = IntV(lastOp.n)
        /\ lastOp.prog \in {"IfReturnPrint", "IfReturnLast"} => lastOp.val = Sign(lastOp.n)
        /\ lastOp.prog = "ReturnThenAdd" => lastOp.val = IntV(lastOp.n)
        /\ lastOp.prog = "ReturnNone" => lastOp.val = NilV
        /\ lastOp.prog = "ReturnTwo" => lastOp.val = [k |-> "results", xs |-> <<IntV(lastOp.n), IntV(7)>>]

\* C17: Keys terminates on every scope, visits each scope of the chain once,
\* from the scope to the root, and returns the names bound in them.
C17_KeysTerminates ==
    lastOp.op = "Keys" =>
        /\ Returned
        /\ lastOp.val.visited = ChainOf(lastOp.s)
        /\ lastOp.val.names = {n \in Names : BoundInChain(Vars, lastOp.s, n)}

\* the scope whose map goroutine p reads or writes in its next step
Access(p) == [scope |-> procs[p].cur, write |-> procs[p].pc = "store"]
Pending(p) == procs[p].pc \in {"get", "set", "store"}
\* two goroutines are about to access the map of one scope, one of them to
\* write it
Race ==
    \E p, q \in Procs :
        /\ p # q /\ Pending(p) /\ Pending(q)
        /\ Access(p).scope = Access(q).scope
        /\ Access(p).write

\* the scopes that are not the own child of a goroutine that defines a name
SharedScopes == {t \in Scopes : \A p \in Procs : ~(procs[p].src.kind = "def" /\ procs[p].s = t)}

\* C15: goroutines that evaluate on one scope chain and only read it (Gets
\* of preset bindings, pure expressions such as 2 + n, definitions of names
\* in a child of their own) do not race; under every interleaving each Eval
\* returns what it returns when it runs alone, and the mappings of the
\* shared scopes stay as they were.
C15_ConcurrentReadsAreSafe ==
    /\ ~Race
    /\ \A p \in Procs :
          /\ Started(p) => \A t \in SharedScopes : Vars[t] = procs[p].before[t]
          /\ procs[p].pc = "done" => procs[p].res = procs[p].alone

\* C15: two goroutines have finished on two scopes under one root that
\* binds x, one a read of x, the other a definition followed by a read of x.
C15_Witness ==
    /\ procs[1].pc = "done" /\ procs[2].pc = "done"
    /\ procs[1].src.kind = "def" /\ procs[2].src.kind = "read"
    /\ procs[1].s # procs[2].s /\ Root \in Ancestors(procs[2].s)
    /\ Vars[Root]["x"] = IntV(1)
    /\ procs[1].res = [val |-> IntV(procs[1].src.n + 1), err |-> NoErr]
    /\ procs[2].res = [val |-> IntV(procs[2].src.n + 1), err |-> NoErr]

====
